---- MODULE Spec2Model ----
(***************************************************************************)
(* NetScan: the monitor's change detection (helpers/monitor.py) on top of  *)
(* the async scanner's ARP read and bounded ping sweep                     *)
(* (helpers/async_scanner.py).                                             *)
(*                                                                         *)
(* Addresses are AddrBits-wide integers.  MAC addresses are short strings; *)
(* "AA" is the upper-case spelling of "aa".  Time is the number of the     *)
(* running cycle.  The reverse-DNS and vendor services are a fixed         *)
(* environment (Dns, Oui).                                                 *)
(*                                                                         *)
(* Specifications: Spec (ARP-only cycles), SpecScan (cycles with a target),*)
(* SpecSweep (one ping_sweep), SpecFault (cycles whose history writes can  *)
(* fail), SpecLoop (monitor_loop, stop and cancellation), SpecStore        *)
(* (direct Device Store calls), SpecEnum (expand_cidr and expand_range).   *)
(***************************************************************************)
EXTENDS Integers, Sequences, FiniteSets, TLC

\* ---------------------------------------------------------------- bounds
MaxCycles == 3        \* scan_network calls of one monitor
MaxScanCycles == 2    \* scan_network calls with a ping sweep
MaxArp == 2           \* lines of one `arp -a` output
MaxCallbacks == 2     \* registered subscribers
AddrBits == 2         \* width of an address
MaxTargets == 3       \* targets of a stand-alone ping_sweep
MaxK == 2             \* largest max_concurrent of a stand-alone ping_sweep
MaxLoopCycles == 2    \* scan_network calls of one monitor_loop
MaxFaultCycles == 2   \* scan_network calls of a monitor whose store can fail
MaxStoreOps == 3      \* direct calls of the Device Store
MaxWriters == 2       \* monitors that share one store
MaxRestartCycles == 2 \* scan_network calls across a restart
MaxAdminCycles == 2   \* scan_network calls of a monitor whose store is also edited
MaxMarks == 1         \* mark_known, mark_trusted and set_custom_name calls beside it

\* the longest target list of a stealth scan (one past a block of ten)
MaxStealthTargets == 11
\* the targets of the ping_sweep that follows a stealth scan
MaxFollowTargets == 2

\* ------------------------------------------------------------- constants
DefaultMaxConcurrent == 100
\* stealth_scan: self.max_concurrent = 10
StealthConcurrent == 10
\* stealth_scan: i % 10 == 0
PauseEvery == 10

Null == "NULL"
Broadcast == "ff:ff:ff:ff:ff:ff"

RawMacs == {"aa", "AA", "bb", Broadcast}
Macs == {"aa", "bb"}
ArpIPs == {2, 3}
Subscribers == {"good", "bad"}
Outcomes == {"up", "down", "timeout", "oserror"}
StoreMacs == {"aa", "AA", "bb"}
Hostnames == {"", "h1", "h2"}
Vendors == {"", "v1"}

\* ------------------------------------------------------------- utilities
RECURSIVE Pow2(_)
Pow2(n) == IF n = 0 THEN 1 ELSE 2 * Pow2(n - 1)

SeqRange(a, b) == [i \in 1..(IF b >= a THEN b - a + 1 ELSE 0) |-> a + i - 1]

Range(s) == {s[i] : i \in DOMAIN s}

SeqsUpTo(S, n) == UNION {[1..k -> S] : k \in 0..n}

\* str.lower() on a MAC
Lower(m) == IF m = "AA" THEN "aa" ELSE IF m = "BB" THEN "bb" ELSE m

\* ------------------------------------------------------ Device (dataclass)
Device(ip, mac, hostname, vendor, method) ==
    [ip |-> ip, mac |-> mac, hostname |-> hostname, vendor |-> vendor,
     discovery_method |-> method]

\* ------------------------------------------------------ Target Enumerator
\* A spec is addr/prefix; a prefix above AddrBits is malformed (ValueError).
\* an expansion that drops the first and the last address of every block
expand_cidrSliced(cidr, hosts_only) ==
    IF cidr.prefix > AddrBits THEN <<>>
    ELSE LET size == Pow2(AddrBits - cidr.prefix)
             base == cidr.addr - (cidr.addr % size)
             last == base + size - 1
         IN  IF ~hosts_only
             THEN SeqRange(base, last)
             ELSE SeqRange(base + 1, last - 1)

\* ipaddress.ip_network(cidr, strict=False), then hosts() or all addresses
expand_cidr(cidr, hosts_only) ==
    IF cidr.prefix > AddrBits THEN <<>>
    ELSE LET size == Pow2(AddrBits - cidr.prefix)
             base == cidr.addr - (cidr.addr % size)
             last == base + size - 1
         IN  IF ~hosts_only \/ cidr.prefix >= AddrBits - 1
             THEN SeqRange(base, last)
             ELSE SeqRange(base + 1, last - 1)

\* An address text is its family (4, 6, or 0 when ipaddress.ip_address
\* rejects it) and its integer value; ipaddress.ip_address(n) of an integer
\* is an IPv4 address below 2^AddrBits and an IPv6 address from there on.
AddressOf(n) == [family |-> IF n < Pow2(AddrBits) THEN 4 ELSE 6, value |-> n]

expand_range(start_ip, end_ip) ==
    IF start_ip.family = 0 \/ end_ip.family = 0 THEN <<>>
    ELSE [i \in DOMAIN SeqRange(start_ip.value, end_ip.value) |->
             AddressOf(SeqRange(start_ip.value, end_ip.value)[i])]

\* ------------------------------------------------------------ ARP Source
\* one parsed line of `arp -a`: hostname (ip) at mac
ArpLines == [hostname : {"?"}, ip : ArpIPs, mac : RawMacs]

ArpDevice(line) ==
    Device(line.ip, Lower(line.mac),
           IF line.hostname # "?" THEN line.hostname ELSE "", "", "arp")

get_arp_table(lines) ==
    LET keep(l) == l.mac # "(incomplete)" /\ l.mac # Broadcast
        kept == SelectSeq(lines, keep)
    IN  [i \in 1..Len(kept) |-> ArpDevice(kept[i])]

\* ------------------------------------------------------------ enrichment
\* socket.gethostbyaddr: host 2 has a PTR record, the others have none
Dns(ip) == IF ip = 2 THEN "h2" ELSE ""

\* api.macvendors.com: the OUI of "aa" is registered
Oui(mac) == IF mac = "aa" THEN "vendorA" ELSE ""

resolve_hostnames(devs) ==
    [i \in 1..Len(devs) |->
        IF Dns(devs[i].ip) # "" /\ devs[i].hostname = ""
        THEN [devs[i] EXCEPT !.hostname = Dns(devs[i].ip)]
        ELSE devs[i]]

lookup_vendors(devs) ==
    [i \in 1..Len(devs) |->
        IF devs[i].mac # "" /\ devs[i].vendor = "" /\ Oui(devs[i].mac) # ""
        THEN [devs[i] EXCEPT !.vendor = Oui(devs[i].mac)]
        ELSE devs[i]]

\* ---------------------------------------------------------- Device Store
\* The devices table is a function from the stored (lower-case) MACs to
\* their rows; an Optional row is a sequence of length 0 or 1.
get_device(db, mac) ==
    IF Lower(mac) \in DOMAIN db THEN <<db[Lower(mac)]>> ELSE <<>>

NewRecord(mac, device, now) ==
    [mac |-> mac, ip |-> device.ip, hostname |-> device.hostname,
     vendor |-> device.vendor, first_seen |-> now, last_seen |-> now,
     is_known |-> 0, is_trusted |-> 0, notes |-> Null, custom_name |-> Null]

\* an UPDATE that also rewrites first_seen
UpdatedRecordResetsFirstSeen(row, device, now) ==
    [row EXCEPT !.ip = device.ip,
                !.hostname = IF device.hostname # "" THEN device.hostname ELSE @,
                !.vendor = IF device.vendor # "" THEN device.vendor ELSE @,
                !.first_seen = now,
                !.last_seen = now]

\* an UPDATE without COALESCE
UpdatedRecordOverwrites(row, device, now) ==
    [row EXCEPT !.ip = device.ip,
                !.hostname = device.hostname,
                !.vendor = device.vendor,
                !.last_seen = now]

UpdatedRecord(row, device, now) ==
    [row EXCEPT !.ip = device.ip,
                !.hostname = IF device.hostname # "" THEN device.hostname ELSE @,
                !.vendor = IF device.vendor # "" THEN device.vendor ELSE @,
                !.last_seen = now]

\* an upsert_device that does not lower-case the MAC it writes
upsert_deviceRawMac(db, device, now) ==
    LET mac == device.mac
        existing == get_device(db, mac)
    IN  IF existing # <<>>
        THEN [db |-> [db EXCEPT ![Lower(mac)] =
                         UpdatedRecord(existing[1], device, now)],
              is_new |-> FALSE]
        ELSE [db |-> db @@ (mac :> NewRecord(mac, device, now)),
              is_new |-> TRUE]

\* the table after upsert_device, and the value upsert_device returns
upsert_device(db, device, now) ==
    LET mac == Lower(device.mac)
        existing == get_device(db, mac)
    IN  IF existing # <<>>
        THEN [db |-> [db EXCEPT ![mac] = UpdatedRecord(existing[1], device, now)],
              is_new |-> FALSE]
        ELSE [db |-> db @@ (mac :> NewRecord(mac, device, now)),
              is_new |-> TRUE]

\* a mark_known written as INSERT OR REPLACE
mark_knownReplacing(db, mac, is_known) ==
    [m \in DOMAIN db \cup {Lower(mac)} |->
        IF m = Lower(mac)
        THEN [NewRecord(m, Device(0, m, "", "", ""), 0)
                 EXCEPT !.is_known = IF is_known THEN 1 ELSE 0]
        ELSE db[m]]

\* UPDATE devices SET <column> = ? WHERE mac = ?
mark_known(db, mac, is_known) ==
    IF Lower(mac) \in DOMAIN db
    THEN [db EXCEPT ![Lower(mac)].is_known = IF is_known THEN 1 ELSE 0]
    ELSE db

mark_trusted(db, mac, is_trusted) ==
    IF Lower(mac) \in DOMAIN db
    THEN [db EXCEPT ![Lower(mac)].is_trusted = IF is_trusted THEN 1 ELSE 0]
    ELSE db

set_custom_name(db, mac, name) ==
    IF Lower(mac) \in DOMAIN db
    THEN [db EXCEPT ![Lower(mac)].custom_name = name]
    ELSE db

\* a log_event that rewrites the table
log_eventReplacing(history, mac, event_type, ip, details, now) ==
    <<[mac |-> Lower(mac), ip |-> ip, event_type |-> event_type,
       timestamp |-> now, details |-> details]>>

log_event(history, mac, event_type, ip, details, now) ==
    Append(history, [mac |-> Lower(mac), ip |-> ip, event_type |-> event_type,
                     timestamp |-> now, details |-> details])

log_scan(scans, device_count, new_devices, gone_devices, now) ==
    Append(scans, [timestamp |-> now, device_count |-> device_count,
                   new_devices |-> new_devices, gone_devices |-> gone_devices,
                   scan_type |-> "monitor"])

\* -------------------------------------------------------- Probe Executor
\* ping_host whose except clause misses the wait_for timeout: it raises
ping_hostUncaught(ip, outcome) ==
    IF outcome = "up"
    THEN [kind |-> "device", device |-> Device(ip, "", "", "", "ping")]
    ELSE IF outcome = "timeout" THEN [kind |-> "raised"]
    ELSE [kind |-> "none"]

\* what ping_host returns for the way its external ping ended: a Device when
\* the ping exited with code 0, None otherwise (the except clause catches the
\* timeout and every process or I/O error)
ping_host(ip, outcome) ==
    IF outcome = "up"
    THEN [kind |-> "device", device |-> Device(ip, "", "", "", "ping")]
    ELSE [kind |-> "none"]

\* ping_host without the semaphore: every task starts its ping at once
CanAcquireUngated(sem) == TRUE

\* `async with self.semaphore` is entered only while a permit is free
CanAcquire(sem) == sem > 0

\* a ping_sweep that returns what has completed so far (streaming)
GatherReadyStreaming(pr) == TRUE

\* asyncio.gather(*tasks, return_exceptions=True): all tasks are awaited
GatherReady(pr) == \A i \in DOMAIN pr : pr[i] \in Outcomes

\* the Devices ping_sweep keeps from the gathered results, in target order
SweepDevices(tg, pr) ==
    LET done == {i \in DOMAIN pr : pr[i] \in Outcomes}
        res(i) == IF i \in done THEN ping_host(tg[i], pr[i]) ELSE [kind |-> "none"]
        isdev(i) == res(i).kind = "device"
        hit == SelectSeq(SeqRange(1, Len(tg)), isdev)
    IN  [k \in 1..Len(hit) |-> res(hit[k]).device]

\* a merge that appends every ping result, known IP or not
MergeDevicesUnfiltered(devs, pings) == devs \o pings

\* scan_network's merge of the ping results into the ARP devices
MergeDevices(devs, pings) ==
    LET known_ips == {devs[i].ip : i \in DOMAIN devs}
        fresh(d) == d.ip \notin known_ips
    IN  devs \o SelectSeq(pings, fresh)

\* ------------------------------------------------ Notification Dispatcher
\* _notify without the try/except: the first raising callback ends the loop
NotifyUnisolated(cbs, change) ==
    LET bad == {i \in DOMAIN cbs : cbs[i] = "bad"}
        stop == IF bad = {} THEN Len(cbs)
                ELSE CHOOSE i \in bad : \A j \in bad : i <= j
    IN  [i \in 1..stop |->
            [index |-> i, callback |-> cbs[i], change |-> change,
             raised |-> (cbs[i] = "bad")]]

\* the calls _notify makes for one change: every callback in registration
\* order; the "bad" subscriber raises, which is caught and logged
Notify(cbs, change) ==
    [i \in 1..Len(cbs) |->
        [index |-> i, callback |-> cbs[i], change |-> change,
         raised |-> (cbs[i] = "bad")]]

DeviceChange(change_type, device, previous_state) ==
    [change_type |-> change_type, device |-> device,
     previous_state |-> previous_state]

\* ------------------------------------------------------------- the state
VARIABLES
    db_devices,         \* devices table
    device_history,     \* device_history table, in insertion order
    scan_history,       \* scan_history table, in insertion order
    callbacks,          \* NetworkMonitor.callbacks
    current_devices,    \* NetworkMonitor._current_devices
    last_scan_devices,  \* NetworkMonitor._last_scan_devices
    max_concurrent,     \* AsyncScanner.max_concurrent
    semaphore,          \* free permits of AsyncScanner.semaphore
    targets,            \* scan_network's local targets (the ping_sweep targets)
    probe,              \* per target: "pending", "inflight" or its outcome
    ping_results,       \* what ping_sweep returned
    devices,            \* scan_network's local devices
    idx,                \* position of the loop over devices
    current_macs,       \* scan_network's local current_macs
    new_count,          \* scan_network's local new_count
    gone_count,         \* scan_network's local gone_count
    gone_todo,          \* MACs the loop over _last_scan_devices has not visited
    changes,            \* scan_network's local changes, returned at the end
    pc,                 \* where the monitor is
    cycle,              \* number of scan_network calls so far (the clock)
    notified,           \* callback invocations of the running cycle, in order
    dbAtStart,          \* devices table when the cycle started
    histAtStart,        \* length of device_history when the cycle started
    lastAtStart,        \* _last_scan_devices when the cycle started
    scanLog,            \* per finished cycle: the (ip, mac) pairs it scanned
    openProbes,         \* probes still unfinished when ping_sweep returned
    running,            \* NetworkMonitor.running
    lpc,                \* where monitor_loop is
    stopCalled,         \* stop() was called on the running loop
    lastUpsert,         \* the last upsert_device call: its MAC, result and before-state
    supplied,           \* per stored MAC: the last non-empty value upserted per field
    storeOps,           \* number of direct Device Store calls so far
    call,               \* a call of a Target Enumerator function and its result
    bornAt,             \* the cycle count when this NetworkMonitor was constructed
    writers,            \* per concurrent upsert_device call: where it is
    old_concurrent,     \* stealth_scan's local old_concurrent
    stealthLog          \* stealth_scan's pauses and probe starts, in order

vars == <<db_devices, device_history, scan_history, callbacks, current_devices,
          last_scan_devices, max_concurrent, semaphore, targets, probe,
          ping_results, devices, idx, current_macs, new_count, gone_count,
          gone_todo, changes, pc, cycle, notified, dbAtStart, histAtStart,
          lastAtStart, scanLog, openProbes, running, lpc, stopCalled,
          lastUpsert, supplied, storeOps, call, bornAt, writers,
          old_concurrent, stealthLog>>

storeVars == <<db_devices, device_history, scan_history>>
sweepVars == <<semaphore, targets, probe, ping_results>>
loopVars == <<idx, current_macs, new_count, gone_count, gone_todo, changes>>
ghostVars == <<dbAtStart, histAtStart, lastAtStart, scanLog, openProbes>>
monitorVars == <<running, lpc, stopCalled>>
apiVars == <<lastUpsert, supplied, storeOps, call>>
extVars == <<bornAt, writers, old_concurrent, stealthLog>>
scanVars == <<storeVars, sweepVars, loopVars, ghostVars, callbacks,
              current_devices, last_scan_devices, max_concurrent, devices, pc,
              cycle, notified>>

EmptyMap == [m \in {} |-> 0]

Pairs(devs) == {<<devs[i].ip, devs[i].mac>> : i \in DOMAIN devs}

\* DeviceDatabase() on a new file, NetworkMonitor.__init__, AsyncScanner.__init__
Init ==
    /\ db_devices = EmptyMap
    /\ device_history = <<>>
    /\ scan_history = <<>>
    /\ callbacks = <<>>
    /\ current_devices = EmptyMap
    /\ last_scan_devices = {}
    /\ max_concurrent = DefaultMaxConcurrent
    /\ semaphore = 0
    /\ targets = <<>>
    /\ probe = <<>>
    /\ ping_results = <<>>
    /\ devices = <<>>
    /\ idx = 0
    /\ current_macs = {}
    /\ new_count = 0
    /\ gone_count = 0
    /\ gone_todo = {}
    /\ changes = <<>>
    /\ pc = "idle"
    /\ cycle = 0
    /\ notified = <<>>
    /\ dbAtStart = EmptyMap
    /\ histAtStart = 0
    /\ lastAtStart = {}
    /\ scanLog = <<>>
    /\ openProbes = 0
    /\ running = FALSE
    /\ lpc = "stopped"
    /\ stopCalled = FALSE
    /\ lastUpsert = <<>>
    /\ supplied = EmptyMap
    /\ storeOps = 0
    /\ call = <<>>
    /\ bornAt = 0
    /\ writers = <<>>
    /\ old_concurrent = 0
    /\ stealthLog = <<>>

\* ------------------------------------------------------------ operations
\* NetworkMonitor.add_callback, before the monitor runs
add_callback(s) ==
    /\ pc = "idle"
    /\ Len(callbacks) < MaxCallbacks
    /\ callbacks' = Append(callbacks, s)
    /\ UNCHANGED <<extVars, monitorVars, apiVars, storeVars, sweepVars, loopVars, ghostVars, current_devices,
                   last_scan_devices, max_concurrent, devices, pc, cycle,
                   notified>>

\* scan_network up to its first await: the ARP read, expand_cidr and the
\* start of ping_sweep (a fresh semaphore, one task per target)
StartCycle(target, lines) ==
    /\ pc \in {"idle", "returned"}
    /\ cycle' = cycle + 1
    /\ devices' = get_arp_table(lines)
    /\ changes' = <<>>
    /\ idx' = 0
    /\ current_macs' = {}
    /\ new_count' = 0
    /\ gone_count' = 0
    /\ gone_todo' = {}
    /\ ping_results' = <<>>
    /\ IF target = <<>>
       THEN /\ pc' = "resolve"
            /\ targets' = <<>>
            /\ probe' = <<>>
            /\ UNCHANGED semaphore
       ELSE /\ pc' = "sweep"
            /\ targets' = expand_cidr(target[1], TRUE)
            /\ probe' = [i \in 1..Len(expand_cidr(target[1], TRUE)) |-> "pending"]
            /\ semaphore' = max_concurrent
    /\ notified' = <<>>
    /\ dbAtStart' = db_devices
    /\ histAtStart' = Len(device_history)
    /\ lastAtStart' = last_scan_devices
    /\ openProbes' = 0
    /\ UNCHANGED scanLog
    /\ UNCHANGED <<extVars, monitorVars, apiVars, storeVars, callbacks, current_devices, last_scan_devices,
                   max_concurrent>>

\* ping_host enters `async with self.semaphore` and starts its ping
ProbeStart(i) ==
    /\ pc = "sweep"
    /\ probe[i] = "pending"
    /\ CanAcquire(semaphore)
    /\ semaphore' = semaphore - 1
    /\ probe' = [probe EXCEPT ![i] = "inflight"]
    /\ UNCHANGED <<extVars, monitorVars, apiVars, storeVars, loopVars, ghostVars, callbacks, current_devices,
                   last_scan_devices, max_concurrent, targets, ping_results,
                   devices, pc, cycle, notified>>

\* the ping ends (exit code 0, another exit code, the wait_for timeout or an
\* OSError); ping_host leaves the `async with` and returns
ProbeFinish(i, outcome) ==
    /\ pc = "sweep"
    /\ probe[i] = "inflight"
    /\ semaphore' = semaphore + 1
    /\ probe' = [probe EXCEPT ![i] = outcome]
    /\ UNCHANGED <<extVars, monitorVars, apiVars, storeVars, loopVars, ghostVars, callbacks, current_devices,
                   last_scan_devices, max_concurrent, targets, ping_results,
                   devices, pc, cycle, notified>>

\* `await asyncio.gather(...)` returns and ping_sweep builds its result
Gather ==
    /\ pc = "sweep"
    /\ GatherReady(probe)
    /\ ping_results' = SweepDevices(targets, probe)
    /\ pc' = "gathered"
    /\ openProbes' = Cardinality({i \in DOMAIN probe : probe[i] \notin Outcomes})
    /\ UNCHANGED <<extVars, monitorVars, apiVars, storeVars, loopVars, dbAtStart, histAtStart, lastAtStart,
                   scanLog, callbacks, current_devices, last_scan_devices,
                   max_concurrent, semaphore, targets, probe, devices, cycle,
                   notified>>

\* scan_network merges the ping results into devices
Merge ==
    /\ pc = "gathered"
    /\ devices' = MergeDevices(devices, ping_results)
    /\ ping_results' = <<>>
    /\ probe' = <<>>
    /\ pc' = "resolve"
    /\ UNCHANGED <<extVars, monitorVars, apiVars, storeVars, loopVars, ghostVars, callbacks, current_devices,
                   last_scan_devices, max_concurrent, semaphore, targets, cycle,
                   notified>>

\* resolve_hostnames and lookup_vendors
Resolve ==
    /\ pc = "resolve"
    /\ devices' = lookup_vendors(resolve_hostnames(devices))
    /\ idx' = 1
    /\ pc' = "detect"
    /\ UNCHANGED <<extVars, monitorVars, apiVars, storeVars, sweepVars, ghostVars, callbacks, current_devices,
                   last_scan_devices, max_concurrent, current_macs, new_count,
                   gone_count, gone_todo, changes, cycle, notified>>

\* the branch scan_network takes for one Device with a MAC (lines 339-375)
Classify(is_new, mac, last, existing, device) ==
    IF is_new THEN "new"
    ELSE IF mac \notin last /\ existing # <<>> THEN "returned"
    ELSE IF existing # <<>> /\ existing[1].ip # device.ip THEN "changed"
    ELSE "none"

\* an event_type that is the change_type in every branch
EventTypeOfChange(kind) == kind

\* the event_type and details log_event is called with in each branch;
\* details is <<text, hostname, ip>>
EventType(kind) == IF kind = "changed" THEN "ip_changed" ELSE kind

EventDetails(kind, existing, device) ==
    IF kind = "new"
    THEN <<"New device", IF device.hostname # "" THEN device.hostname ELSE "unknown", -1>>
    ELSE IF kind = "changed"
    THEN <<"IP changed from", "", existing[1].ip>>
    ELSE <<"", "", -1>>

\* a loop over devices without `if not device.mac: continue`
HasMacUntested(device) == TRUE

\* `if not device.mac: continue` (lines 328-329)
HasMac(device) == device.mac # ""

\* one iteration of `for device in devices`
ProcessDevice ==
    /\ pc = "detect"
    /\ idx <= Len(devices)
    /\ idx' = idx + 1
    /\ LET device == devices[idx]
           mac == Lower(device.mac)
           existing == get_device(db_devices, mac)
           up == upsert_device(db_devices, device, cycle)
           kind == Classify(up.is_new, mac, last_scan_devices, existing, device)
           change == DeviceChange(kind, device,
                                  IF kind = "new" THEN <<>> ELSE existing)
       IN  IF ~HasMac(device)
           THEN UNCHANGED <<storeVars, current_macs, current_devices, new_count,
                            changes, notified>>
           ELSE /\ current_macs' = current_macs \cup {mac}
                /\ current_devices' =
                       [m \in DOMAIN current_devices \cup {mac} |->
                           IF m = mac THEN device ELSE current_devices[m]]
                /\ db_devices' = up.db
                /\ new_count' = IF kind = "new" THEN new_count + 1 ELSE new_count
                /\ IF kind = "none"
                   THEN UNCHANGED <<changes, notified, device_history>>
                   ELSE /\ changes' = Append(changes, change)
                        /\ notified' = notified \o Notify(callbacks, change)
                        /\ device_history' =
                               log_event(device_history, mac, EventType(kind),
                                         device.ip,
                                         EventDetails(kind, existing, device),
                                         cycle)
                /\ UNCHANGED scan_history
    /\ UNCHANGED <<extVars, monitorVars, apiVars, sweepVars, ghostVars, callbacks, last_scan_devices,
                   max_concurrent, devices, gone_count, gone_todo, pc, cycle>>

\* the loop over devices is exhausted; `for mac in self._last_scan_devices`
\* starts (a set: it is visited in any order)
StartGone ==
    /\ pc = "detect"
    /\ idx > Len(devices)
    /\ pc' = "gone"
    /\ gone_todo' = last_scan_devices
    /\ UNCHANGED <<extVars, monitorVars, apiVars, storeVars, sweepVars, ghostVars, callbacks, current_devices,
                   last_scan_devices, max_concurrent, devices, idx, current_macs,
                   new_count, gone_count, changes, cycle, notified>>

\* a loop over _last_scan_devices that forgets to test current_macs
IsGoneUntested(mac, current) == TRUE

\* whether the loop over _last_scan_devices reports mac as gone
IsGone(mac, current) == mac \notin current

\* one iteration of `for mac in self._last_scan_devices`
ProcessGone(mac) ==
    /\ pc = "gone"
    /\ mac \in gone_todo
    /\ gone_todo' = gone_todo \ {mac}
    /\ LET existing == get_device(db_devices, mac)
           change == DeviceChange("gone",
                         Device(existing[1].ip, mac, existing[1].hostname,
                                existing[1].vendor, ""), <<>>)
       IN  IF ~IsGone(mac, current_macs)
           THEN UNCHANGED <<gone_count, changes, notified, device_history>>
           ELSE /\ gone_count' = gone_count + 1
                /\ IF existing = <<>>
                   THEN UNCHANGED <<changes, notified, device_history>>
                   ELSE /\ changes' = Append(changes, change)
                        /\ notified' = notified \o Notify(callbacks, change)
                        /\ device_history' =
                               log_event(device_history, mac, "gone",
                                         existing[1].ip, <<"", "", -1>>, cycle)
    /\ UNCHANGED <<extVars, monitorVars, apiVars, db_devices, scan_history, sweepVars, ghostVars, callbacks,
                   current_devices, last_scan_devices, max_concurrent, devices,
                   idx, current_macs, new_count, pc, cycle>>

\* the tail of scan_network: the live set is replaced, the scan is logged and
\* changes is returned
FinishCycle ==
    /\ pc = "gone"
    /\ gone_todo = {}
    /\ last_scan_devices' = current_macs
    /\ scan_history' = log_scan(scan_history, Len(devices), new_count,
                                gone_count, cycle)
    /\ pc' = "returned"
    /\ scanLog' = Append(scanLog, Pairs(devices))
    /\ UNCHANGED <<extVars, monitorVars, apiVars, db_devices, device_history, sweepVars, loopVars, dbAtStart,
                   histAtStart, lastAtStart, openProbes, callbacks, current_devices,
                   max_concurrent, devices, cycle, notified>>

\* the neighbour cache holds one entry per IP: the outputs of `arp -a`
ArpOutputs ==
    {t \in SeqsUpTo(ArpLines, MaxArp) :
        \A i, j \in DOMAIN t : t[i].ip = t[j].ip => i = j}

\* a monitor without --target: every cycle reads the ARP table only
Next ==
    \/ \E s \in Subscribers \ Range(callbacks) : add_callback(s)
    \/ /\ cycle < MaxCycles
       /\ \E lines \in ArpOutputs : StartCycle(<<>>, lines)
    \/ Resolve
    \/ ProcessDevice
    \/ StartGone
    \/ \E m \in Macs : ProcessGone(m)
    \/ FinishCycle

Spec == Init /\ [][Next]_vars

\* ------------------------------------------- a stand-alone ping_sweep call
\* AsyncScanner(max_concurrent = K).ping_sweep(targets)
InitSweep ==
    /\ db_devices = EmptyMap
    /\ device_history = <<>>
    /\ scan_history = <<>>
    /\ callbacks = <<>>
    /\ current_devices = EmptyMap
    /\ last_scan_devices = {}
    /\ max_concurrent \in 1..MaxK
    /\ semaphore = max_concurrent
    /\ targets \in {SeqRange(1, n) : n \in 0..MaxTargets}
    /\ probe = [i \in 1..Len(targets) |-> "pending"]
    /\ ping_results = <<>>
    /\ devices = <<>>
    /\ idx = 0
    /\ current_macs = {}
    /\ new_count = 0
    /\ gone_count = 0
    /\ gone_todo = {}
    /\ changes = <<>>
    /\ pc = "sweep"
    /\ cycle = 0
    /\ notified = <<>>
    /\ dbAtStart = EmptyMap
    /\ histAtStart = 0
    /\ lastAtStart = {}
    /\ scanLog = <<>>
    /\ openProbes = 0
    /\ running = FALSE
    /\ lpc = "stopped"
    /\ stopCalled = FALSE
    /\ lastUpsert = <<>>
    /\ supplied = EmptyMap
    /\ storeOps = 0
    /\ call = <<>>
    /\ bornAt = 0
    /\ writers = <<>>
    /\ old_concurrent = 0
    /\ stealthLog = <<>>

NextSweep ==
    \/ \E i \in DOMAIN probe : ProbeStart(i)
    \/ \E i \in DOMAIN probe, o \in Outcomes : ProbeFinish(i, o)
    \/ Gather

SpecSweep == InitSweep /\ [][NextSweep]_vars

\* ------------------------------------------ a monitor run with --target
\* the target scan_network is called with: the block {2, 3}
ScanTarget == <<[addr |-> 2, prefix |-> AddrBits - 1]>>

\* or the single host 2
HostTarget == <<[addr |-> 2, prefix |-> AddrBits]>>

NextScan ==
    \/ \E s \in Subscribers \ Range(callbacks) : add_callback(s)
    \/ /\ cycle < MaxScanCycles
       /\ \E lines \in ArpOutputs, target \in {ScanTarget, HostTarget} :
              StartCycle(target, lines)
    \/ \E i \in DOMAIN probe : ProbeStart(i)
    \/ \E i \in DOMAIN probe, o \in Outcomes : ProbeFinish(i, o)
    \/ Gather
    \/ Merge
    \/ Resolve
    \/ ProcessDevice
    \/ StartGone
    \/ \E m \in Macs : ProcessGone(m)
    \/ FinishCycle

SpecScan == Init /\ [][NextScan]_vars

\* ------------------------------------- a monitor whose store writes can fail
\* one iteration of `for device in devices` in which log_event raises
\* (sqlite3.Error): the upsert is committed, the Change is appended and
\* notified, then the exception leaves scan_network
ProcessDeviceFails ==
    /\ pc = "detect"
    /\ idx <= Len(devices)
    /\ LET device == devices[idx]
           mac == Lower(device.mac)
           existing == get_device(db_devices, mac)
           up == upsert_device(db_devices, device, cycle)
           kind == Classify(up.is_new, mac, last_scan_devices, existing, device)
           change == DeviceChange(kind, device,
                                  IF kind = "new" THEN <<>> ELSE existing)
       IN  /\ HasMac(device)
           /\ kind # "none"
           /\ current_macs' = current_macs \cup {mac}
           /\ current_devices' =
                  [m \in DOMAIN current_devices \cup {mac} |->
                      IF m = mac THEN device ELSE current_devices[m]]
           /\ db_devices' = up.db
           /\ new_count' = IF kind = "new" THEN new_count + 1 ELSE new_count
           /\ changes' = Append(changes, change)
           /\ notified' = notified \o Notify(callbacks, change)
    /\ pc' = "raised"
    /\ UNCHANGED <<extVars, monitorVars, apiVars, sweepVars, ghostVars, device_history,
                   scan_history, callbacks, last_scan_devices, max_concurrent,
                   devices, idx, gone_count, gone_todo, cycle>>

\* one iteration of `for mac in self._last_scan_devices` in which log_event
\* raises
ProcessGoneFails(mac) ==
    /\ pc = "gone"
    /\ mac \in gone_todo
    /\ IsGone(mac, current_macs)
    /\ get_device(db_devices, mac) # <<>>
    /\ LET existing == get_device(db_devices, mac)
           change == DeviceChange("gone",
                         Device(existing[1].ip, mac, existing[1].hostname,
                                existing[1].vendor, ""), <<>>)
       IN  /\ gone_count' = gone_count + 1
           /\ changes' = Append(changes, change)
           /\ notified' = notified \o Notify(callbacks, change)
    /\ pc' = "raised"
    /\ UNCHANGED <<extVars, monitorVars, apiVars, storeVars, sweepVars, ghostVars,
                   callbacks, current_devices, last_scan_devices, max_concurrent,
                   devices, idx, current_macs, new_count, gone_todo, cycle>>

\* the tail of scan_network in which log_scan raises: the live set is
\* already replaced (line 400), nothing is returned
LogScanFails ==
    /\ pc = "gone"
    /\ gone_todo = {}
    /\ last_scan_devices' = current_macs
    /\ pc' = "raised"
    /\ UNCHANGED <<extVars, monitorVars, apiVars, storeVars, sweepVars, loopVars,
                   ghostVars, callbacks, current_devices, max_concurrent,
                   devices, cycle, notified>>

\* single scan_network calls (--once, or a caller of the class) against a
\* store whose history writes can fail
NextFault ==
    \/ /\ cycle < MaxFaultCycles
       /\ \E lines \in ArpOutputs : StartCycle(<<>>, lines)
    \/ Resolve
    \/ ProcessDevice
    \/ ProcessDeviceFails
    \/ StartGone
    \/ \E m \in Macs : ProcessGone(m)
    \/ \E m \in Macs : ProcessGoneFails(m)
    \/ FinishCycle
    \/ LogScanFails

SpecFault == Init /\ [][NextFault]_vars

\* ------------------------------------------------- monitor_loop and stop
\* monitor_loop is called: running = True (line 409); the initial scan is next
MonitorLoop ==
    /\ lpc = "stopped"
    /\ running' = TRUE
    /\ lpc' = "first"
    /\ UNCHANGED <<extVars, stopCalled, apiVars, scanVars>>

\* `await self.scan_network(target)` returns its changes (lines 413-414 and
\* 419-424); the while condition is next
ScanReturns ==
    /\ lpc \in {"first", "woken"}
    /\ pc = "returned"
    /\ lpc' = "check"
    /\ pc' = "idle"
    /\ UNCHANGED <<extVars, running, stopCalled, apiVars, storeVars, sweepVars, loopVars,
                   ghostVars, callbacks, current_devices, last_scan_devices,
                   max_concurrent, devices, cycle, notified>>

\* the initial scan (line 413, outside the try) raises: the exception leaves
\* monitor_loop
ScanCrashes ==
    /\ lpc = "first"
    /\ pc = "raised"
    /\ lpc' = "crashed"
    /\ UNCHANGED <<extVars, running, stopCalled, apiVars, scanVars>>

\* a scan inside the try raises: `except Exception` logs it (lines 428-429)
\* and the while condition is next
ScanErrorLogged ==
    /\ lpc = "woken"
    /\ pc = "raised"
    /\ lpc' = "check"
    /\ pc' = "idle"
    /\ UNCHANGED <<extVars, running, stopCalled, apiVars, storeVars, sweepVars, loopVars,
                   ghostVars, callbacks, current_devices, last_scan_devices,
                   max_concurrent, devices, cycle, notified>>

\* `while self.running` (line 416)
WhileTest ==
    /\ lpc = "check"
    /\ lpc' = IF running THEN "sleeping" ELSE "returned"
    /\ UNCHANGED <<extVars, running, stopCalled, apiVars, scanVars>>

\* `await asyncio.sleep(self.scan_interval)` returns after the interval; the
\* call of scan_network follows without a test of running (lines 418-419)
SleepOver ==
    /\ lpc = "sleeping"
    /\ lpc' = "woken"
    /\ UNCHANGED <<extVars, running, stopCalled, apiVars, scanVars>>

\* stop() from the signal handler while monitor_loop runs, at any point but
\* between the end of a sleep or of line 409 and the scan that follows it
stop ==
    /\ lpc \in {"first", "check", "sleeping", "woken"}
    /\ ~(lpc \in {"first", "woken"} /\ pc = "idle")
    /\ running
    /\ running' = FALSE
    /\ stopCalled' = TRUE
    /\ UNCHANGED <<extVars, lpc, apiVars, scanVars>>

\* the task running monitor_loop is cancelled while it is suspended in the
\* sleep or in an await of a scan inside the try: `except CancelledError:
\* break` (lines 426-427) ends the loop and leaves running as it is
Cancel ==
    /\ \/ lpc = "sleeping"
       \/ lpc = "woken" /\ pc = "resolve"
    /\ lpc' = "returned"
    /\ pc' = IF pc = "resolve" THEN "cancelled" ELSE pc
    /\ UNCHANGED <<extVars, running, stopCalled, apiVars, storeVars, sweepVars, loopVars,
                   ghostVars, callbacks, current_devices, last_scan_devices,
                   max_concurrent, devices, cycle, notified>>

NextLoop ==
    \/ MonitorLoop
    \/ /\ cycle < MaxLoopCycles
       /\ lpc \in {"first", "woken"}
       /\ pc = "idle"
       /\ \E lines \in ArpOutputs : StartCycle(<<>>, lines)
    \/ Resolve
    \/ ProcessDevice
    \/ ProcessDeviceFails
    \/ StartGone
    \/ \E m \in Macs : ProcessGone(m)
    \/ \E m \in Macs : ProcessGoneFails(m)
    \/ FinishCycle
    \/ LogScanFails
    \/ ScanReturns
    \/ ScanCrashes
    \/ ScanErrorLogged
    \/ WhileTest
    \/ SleepOver
    \/ stop
    \/ Cancel

SpecLoop == Init /\ [][NextLoop]_vars

\* ------------------------------------------- direct Device Store calls
\* the Devices a caller hands to upsert_device
StoreDevices ==
    {Device(ip, mac, h, v, "arp") :
        ip \in ArpIPs, mac \in StoreMacs, h \in Hostnames, v \in Vendors}

\* the values upsert_device was last given for the MAC of device, empty ones
\* skipped
Supplied(sup, device) ==
    LET m == Lower(device.mac)
        old == IF m \in DOMAIN sup THEN sup[m]
               ELSE [ip |-> device.ip, hostname |-> "", vendor |-> ""]
    IN  [k \in DOMAIN sup \cup {m} |->
            IF k = m
            THEN [ip |-> device.ip,
                  hostname |-> IF device.hostname # "" THEN device.hostname
                               ELSE old.hostname,
                  vendor |-> IF device.vendor # "" THEN device.vendor
                             ELSE old.vendor]
            ELSE sup[k]]

\* db.upsert_device(device) at time now; datetime.now() does not go back
Upsert(device, now) ==
    /\ now \in {cycle, cycle + 1}
    /\ cycle' = now
    /\ db_devices' = upsert_device(db_devices, device, now).db
    /\ lastUpsert' = <<[device |-> device,
                        is_new |-> upsert_device(db_devices, device, now).is_new,
                        before |-> DOMAIN db_devices]>>
    /\ supplied' = Supplied(supplied, device)
    /\ storeOps' = storeOps + 1
    /\ UNCHANGED <<extVars, monitorVars, call, device_history, scan_history, sweepVars,
                   loopVars, ghostVars, callbacks, current_devices,
                   last_scan_devices, max_concurrent, devices, pc, notified>>

\* db.mark_known, db.mark_trusted or db.set_custom_name
Mark(table) ==
    /\ db_devices' = table
    /\ storeOps' = storeOps + 1
    /\ UNCHANGED <<extVars, monitorVars, lastUpsert, supplied, call, device_history,
                   scan_history, sweepVars, loopVars, ghostVars, callbacks,
                   current_devices, last_scan_devices, max_concurrent, devices,
                   pc, cycle, notified>>

MarkKnown(mac, is_known) == Mark(mark_known(db_devices, mac, is_known))

MarkTrusted(mac, is_trusted) == Mark(mark_trusted(db_devices, mac, is_trusted))

SetCustomName(mac, name) == Mark(set_custom_name(db_devices, mac, name))

StoreOpen == storeOps < MaxStoreOps

NextStore ==
    \/ \E d \in StoreDevices, now \in 0..MaxStoreOps : StoreOpen /\ Upsert(d, now)
    \/ \E m \in StoreMacs, b \in BOOLEAN : StoreOpen /\ MarkKnown(m, b)
    \/ \E m \in StoreMacs, b \in BOOLEAN : StoreOpen /\ MarkTrusted(m, b)
    \/ \E m \in StoreMacs : StoreOpen /\ SetCustomName(m, "name")

SpecStore == Init /\ [][NextStore]_vars

\* ------------------------------------------- Target Enumerator calls
\* the specs a caller passes to expand_cidr: every address with every prefix
\* length, the malformed AddrBits + 1 included
CidrSpecs == [addr : 0..(Pow2(AddrBits) - 1), prefix : 0..(AddrBits + 1)]

\* the address texts a caller passes to expand_range: every IPv4 address,
\* the IPv6 addresses ::1 and the first one beyond the IPv4 integers, and a
\* malformed text
RangeAddrs ==
    [family : {4}, value : 0..(Pow2(AddrBits) - 1)]
        \cup {[family |-> 6, value |-> 1], [family |-> 6, value |-> Pow2(AddrBits)],
              [family |-> 0, value |-> 0]}

NoCidr == [addr |-> 0, prefix |-> 0]
NoAddr == [family |-> 0, value |-> 0]

EnumCalls ==
    {[fn |-> "expand_cidr", cidr |-> c, hosts_only |-> h, start |-> NoAddr,
      end |-> NoAddr] : c \in CidrSpecs, h \in BOOLEAN}
        \cup {[fn |-> "expand_range", cidr |-> NoCidr, hosts_only |-> FALSE,
               start |-> a, end |-> b] : a, b \in RangeAddrs}

\* scanner.expand_cidr(...) or scanner.expand_range(...) is called
CallEnumerator(c) ==
    /\ call = <<>>
    /\ call' = <<[in |-> c, done |-> FALSE, out |-> <<>>]>>
    /\ UNCHANGED <<extVars, monitorVars, lastUpsert, supplied, storeOps, scanVars>>

\* the call returns its list
Expand ==
    /\ call # <<>>
    /\ ~call[1].done
    /\ call' = <<[call[1] EXCEPT
                     !.done = TRUE,
                     !.out = IF call[1].in.fn = "expand_cidr"
                             THEN expand_cidr(call[1].in.cidr,
                                              call[1].in.hosts_only)
                             ELSE expand_range(call[1].in.start,
                                               call[1].in.end)]>>
    /\ UNCHANGED <<extVars, monitorVars, lastUpsert, supplied, storeOps, scanVars>>

NextEnum ==
    \/ \E c \in EnumCalls : CallEnumerator(c)
    \/ Expand

SpecEnum == Init /\ [][NextEnum]_vars

\* ------------------------------------------ two monitors on one store
\* the Devices two monitors see in the same moment
SharedDevices == {d \in StoreDevices : d.hostname = "" /\ d.vendor = ""}

NoDevice == Device(0, "", "", "", "")

\* MaxWriters NetworkMonitors are constructed on the same db_path
Connect ==
    /\ writers = <<>>
    /\ writers' = [w \in 1..MaxWriters |->
                      [pc |-> "idle", device |-> NoDevice, existing |-> <<>>,
                       is_new |-> FALSE]]
    /\ UNCHANGED <<monitorVars, apiVars, bornAt, old_concurrent, stealthLog,
                   scanVars>>

\* upsert_device up to `existing = self.get_device(mac)`: the SELECT runs on
\* a connection of its own (lines 141-145, 112-119)
UpsertCheck(w, device) ==
    /\ w \in DOMAIN writers
    /\ writers[w].pc = "idle"
    /\ writers' = [writers EXCEPT ![w] =
                      [pc |-> "checked", device |-> device,
                       existing |-> get_device(db_devices, device.mac),
                       is_new |-> FALSE]]
    /\ UNCHANGED <<monitorVars, apiVars, bornAt, old_concurrent, stealthLog,
                   scanVars>>

\* the UPDATE or the INSERT with its commit (lines 146-165); an INSERT of a
\* MAC that is stored by now raises sqlite3.IntegrityError (mac is the
\* PRIMARY KEY)
UpsertWrite(w) ==
    /\ w \in DOMAIN writers
    /\ writers[w].pc = "checked"
    /\ LET device == writers[w].device
           mac == Lower(device.mac)
       IN  IF writers[w].existing # <<>>
           THEN /\ db_devices' =
                       IF mac \in DOMAIN db_devices
                       THEN [db_devices EXCEPT
                                ![mac] = UpdatedRecord(db_devices[mac], device, cycle)]
                       ELSE db_devices
                /\ writers' = [writers EXCEPT ![w].pc = "returned",
                                              ![w].is_new = FALSE]
           ELSE IF mac \in DOMAIN db_devices
           THEN /\ writers' = [writers EXCEPT ![w].pc = "failed"]
                /\ UNCHANGED db_devices
           ELSE /\ db_devices' = db_devices @@ (mac :> NewRecord(mac, device, cycle))
                /\ writers' = [writers EXCEPT ![w].pc = "returned",
                                              ![w].is_new = TRUE]
    /\ UNCHANGED <<monitorVars, apiVars, bornAt, old_concurrent, stealthLog,
                   device_history, scan_history, sweepVars, loopVars, ghostVars,
                   callbacks, current_devices, last_scan_devices, max_concurrent,
                   devices, pc, cycle, notified>>

NextShared ==
    \/ Connect
    \/ \E w \in 1..MaxWriters, d \in SharedDevices : UpsertCheck(w, d)
    \/ \E w \in 1..MaxWriters : UpsertWrite(w)

SpecShared == Init /\ [][NextShared]_vars

\* --------------------------------------------- a restart of the monitor
\* the process ends and a new NetworkMonitor is constructed on the same
\* db_path: callbacks, _current_devices and _last_scan_devices start empty
Restart ==
    /\ pc = "returned"
    /\ bornAt < cycle
    /\ bornAt' = cycle
    /\ callbacks' = <<>>
    /\ current_devices' = EmptyMap
    /\ last_scan_devices' = {}
    /\ pc' = "idle"
    /\ UNCHANGED <<monitorVars, apiVars, writers, old_concurrent, stealthLog,
                   storeVars, sweepVars, loopVars, ghostVars, max_concurrent,
                   devices, cycle, notified>>

NextRestart ==
    \/ /\ cycle < MaxRestartCycles
       /\ \E lines \in ArpOutputs : StartCycle(<<>>, lines)
    \/ Resolve
    \/ ProcessDevice
    \/ StartGone
    \/ \E m \in Macs : ProcessGone(m)
    \/ FinishCycle
    \/ Restart

SpecRestart == Init /\ [][NextRestart]_vars

\* ------------------------- a monitor whose records are marked meanwhile
\* cycles of one monitor, while the store's mark operations are called on
\* the same database at any moment
MarksOpen == storeOps < MaxMarks

NextAdmin ==
    \/ /\ cycle < MaxAdminCycles
       /\ \E lines \in ArpOutputs : StartCycle(<<>>, lines)
    \/ Resolve
    \/ ProcessDevice
    \/ StartGone
    \/ \E m \in Macs : ProcessGone(m)
    \/ FinishCycle
    \/ \E m \in StoreMacs : MarksOpen /\ MarkKnown(m, TRUE)
    \/ \E m \in StoreMacs : MarksOpen /\ MarkTrusted(m, TRUE)
    \/ \E m \in StoreMacs : MarksOpen /\ SetCustomName(m, "name")

SpecAdmin == Init /\ [][NextAdmin]_vars

\* ------------------------------------------------------- stealth_scan
\* a stealth scan that never sleeps
PauseDueNever(i) == FALSE

\* `if i > 0 and i % 10 == 0`, i the position from 0 of the next target
PauseDue(i) == i > 0 /\ i % PauseEvery = 0

StealthStates == {"stealth", "stealth_ping", "stealth_wait", "stealth_done"}

\* stealth_scan(cidr) up to its loop: the targets (the consecutive addresses
\* of the block), old_concurrent, the bound of 10 and its new semaphore
StealthStart(tg) ==
    /\ pc = "idle"
    /\ targets' = tg
    /\ old_concurrent' = max_concurrent
    /\ max_concurrent' = StealthConcurrent
    /\ semaphore' = StealthConcurrent
    /\ probe' = [i \in DOMAIN tg |-> "pending"]
    /\ devices' = <<>>
    /\ idx' = 0
    /\ stealthLog' = <<>>
    /\ pc' = "stealth"
    /\ UNCHANGED <<monitorVars, apiVars, bornAt, writers, storeVars, ghostVars,
                   callbacks, current_devices, last_scan_devices, ping_results,
                   current_macs, new_count, gone_count, gone_todo, changes,
                   cycle, notified>>

\* `await asyncio.sleep(1)` before the target at position idx
StealthSleep ==
    /\ pc = "stealth"
    /\ idx < Len(targets)
    /\ PauseDue(idx)
    /\ stealthLog' = Append(stealthLog, [kind |-> "pause", i |-> idx])
    /\ pc' = "stealth_ping"
    /\ UNCHANGED <<monitorVars, apiVars, bornAt, writers, old_concurrent,
                   storeVars, sweepVars, loopVars, ghostVars, callbacks,
                   current_devices, last_scan_devices, max_concurrent, devices,
                   cycle, notified>>

\* `await self.ping_host(ip)`: the probe of the target at position idx
\* enters the semaphore and starts its ping
StealthProbeStart ==
    /\ \/ pc = "stealth_ping"
       \/ pc = "stealth" /\ idx < Len(targets) /\ ~PauseDue(idx)
    /\ CanAcquire(semaphore)
    /\ semaphore' = semaphore - 1
    /\ probe' = [probe EXCEPT ![idx + 1] = "inflight"]
    /\ stealthLog' = Append(stealthLog, [kind |-> "probe", i |-> idx])
    /\ pc' = "stealth_wait"
    /\ UNCHANGED <<monitorVars, apiVars, bornAt, writers, old_concurrent,
                   storeVars, loopVars, ghostVars, callbacks, current_devices,
                   last_scan_devices, max_concurrent, targets, ping_results,
                   devices, cycle, notified>>

\* the ping ends, ping_host returns and the loop keeps a Device
StealthProbeFinish(outcome) ==
    /\ pc = "stealth_wait"
    /\ semaphore' = semaphore + 1
    /\ probe' = [probe EXCEPT ![idx + 1] = outcome]
    /\ devices' = LET result == ping_host(targets[idx + 1], outcome)
                  IN  IF result.kind = "device"
                      THEN Append(devices, result.device)
                      ELSE devices
    /\ idx' = idx + 1
    /\ pc' = "stealth"
    /\ UNCHANGED <<monitorVars, apiVars, extVars, storeVars, ghostVars,
                   callbacks, current_devices, last_scan_devices,
                   max_concurrent, targets, ping_results, current_macs,
                   new_count, gone_count, gone_todo, changes, cycle, notified>>

\* after the loop: max_concurrent is put back, the Devices are resolved and
\* returned
StealthReturn ==
    /\ pc = "stealth"
    /\ idx = Len(targets)
    /\ max_concurrent' = old_concurrent
    /\ devices' = lookup_vendors(resolve_hostnames(devices))
    /\ pc' = "stealth_done"
    /\ UNCHANGED <<monitorVars, apiVars, extVars, storeVars, sweepVars,
                   loopVars, ghostVars, callbacks, current_devices,
                   last_scan_devices, cycle, notified>>

\* a ping_sweep on the same scanner after the stealth scan returned:
\* self.semaphore = asyncio.Semaphore(self.max_concurrent) and one task per
\* target
FollowingSweep(tg) ==
    /\ pc = "stealth_done"
    /\ semaphore' = max_concurrent
    /\ targets' = tg
    /\ probe' = [i \in DOMAIN tg |-> "pending"]
    /\ pc' = "sweep"
    /\ UNCHANGED <<monitorVars, apiVars, extVars, storeVars, loopVars,
                   ghostVars, callbacks, current_devices, last_scan_devices,
                   max_concurrent, ping_results, devices, cycle, notified>>

NextStealth ==
    \/ \E n \in 1..MaxStealthTargets : StealthStart(SeqRange(1, n))
    \/ StealthSleep
    \/ StealthProbeStart
    \/ \E o \in {"up", "down"} : StealthProbeFinish(o)
    \/ StealthReturn
    \/ \E n \in 1..MaxFollowTargets : FollowingSweep(SeqRange(1, n))
    \/ \E i \in DOMAIN probe : ProbeStart(i)
    \/ \E i \in DOMAIN probe, o \in {"up", "down"} : ProbeFinish(i, o)
    \/ Gather

SpecStealth == Init /\ [][NextStealth]_vars

\* ================================================================ claims
Done == pc = "returned"

TrackKinds == {"new", "returned", "changed"}

\* positions in the cycle's Change list of the Changes of given kinds for mac
ChangesOf(mac, kinds) ==
    {i \in DOMAIN changes :
        changes[i].change_type \in kinds /\ Lower(changes[i].device.mac) = mac}

\* the live set of a scan: the MACs of its Devices
LiveOf(pairs) == {Lower(p[2]) : p \in {q \in pairs : q[2] # ""}}

\* in a state where scan_network has returned: this cycle's and the previous
\* cycle's scan
ThisScan == scanLog[Len(scanLog)]
PrevScan == IF Len(scanLog) >= 2 THEN scanLog[Len(scanLog) - 1] ELSE {}

\* C1: when a cycle scans the same (ip, mac) pairs as the cycle before it,
\* it returns no Change, invokes no subscriber and appends no HistoryEvent.
C1_Idempotence ==
    (Done /\ Len(scanLog) >= 2 /\ ThisScan = PrevScan) =>
        /\ changes = <<>>
        /\ notified = <<>>
        /\ Len(device_history) = histAtStart

\* C2: in a cycle every MAC gets at most one Change among NEW, RETURNED and
\* CHANGED, and a MAC without a stored record at the start of the cycle
\* gets NEW.
C2_Exclusive ==
    \A m \in Macs :
        /\ Cardinality(ChangesOf(m, TrackKinds)) <= 1
        /\ m \notin DOMAIN dbAtStart =>
               \A i \in ChangesOf(m, TrackKinds) : changes[i].change_type = "new"

\* GONE events logged for mac in cycle c
GoneEvents(mac, c) ==
    Cardinality({k \in DOMAIN device_history :
                    /\ device_history[k].mac = mac
                    /\ device_history[k].event_type = "gone"
                    /\ device_history[k].timestamp = c})

\* C3: the MACs that get a GONE Change in a cycle are exactly those of the
\* previous live set that are not in the current one, each once; a GONE
\* Change comes after every NEW, RETURNED or CHANGED Change of the cycle; a
\* MAC live in cycle 1 and not in cycles 2 and 3 has one GONE event in
\* cycle 2 and none in cycle 3.
C3_GoneComplement ==
    /\ \A i, j \in DOMAIN changes :
           (changes[i].change_type = "gone" /\ changes[j].change_type # "gone")
               => j < i
    /\ Done =>
           \A m \in Macs :
               Cardinality(ChangesOf(m, {"gone"})) =
                   IF m \in LiveOf(PrevScan) \ LiveOf(ThisScan) THEN 1 ELSE 0
    /\ (Done /\ Len(scanLog) = 3) =>
           \A m \in LiveOf(scanLog[1]) \ (LiveOf(scanLog[2]) \cup LiveOf(scanLog[3])) :
               GoneEvents(m, 2) = 1 /\ GoneEvents(m, 3) = 0

C3_Witness ==
    /\ Done
    /\ Len(scanLog) = 3
    /\ \E m \in LiveOf(scanLog[1]) \ (LiveOf(scanLog[2]) \cup LiveOf(scanLog[3])) :
           GoneEvents(m, 2) = 1
    /\ \E i \in DOMAIN changes : changes[i].change_type = "new"

\* C4: a MAC with a stored record that was not in the previous live set and
\* is scanned now gets exactly one RETURNED and neither GONE nor CHANGED.
C4_Returned ==
    Done =>
        \A m \in Macs :
            (m \in DOMAIN dbAtStart /\ m \notin LiveOf(PrevScan)
                                    /\ m \in LiveOf(ThisScan)) =>
                /\ Cardinality(ChangesOf(m, {"returned"})) = 1
                /\ ChangesOf(m, {"gone", "changed"}) = {}

\* C5: a MAC gets CHANGED exactly when it is in the previous and the current
\* live set and is scanned at an IP other than the stored one; it then gets
\* one CHANGED, whose previous_state is the row as it was when the cycle
\* started, and neither RETURNED nor GONE.
C5_Changed ==
    Done =>
        \A m \in Macs :
            LET moved == /\ m \in LiveOf(PrevScan)
                         /\ m \in DOMAIN dbAtStart
                         /\ \E p \in ThisScan :
                                Lower(p[2]) = m /\ p[1] # dbAtStart[m].ip
            IN  /\ (ChangesOf(m, {"changed"}) # {}) <=> moved
                /\ moved =>
                       /\ Cardinality(ChangesOf(m, {"changed"})) = 1
                       /\ \A i \in ChangesOf(m, {"changed"}) :
                              changes[i].previous_state = <<dbAtStart[m]>>
                       /\ ChangesOf(m, {"returned", "gone"}) = {}

\* C6: on an empty store the first scan_network call returns exactly one NEW
\* Change per Device that has a MAC and nothing else, and a second call on
\* the same fixture returns no Change.
C6_SingleShot ==
    /\ (Done /\ cycle = 1) =>
           /\ \A i \in DOMAIN changes : changes[i].change_type = "new"
           /\ Len(changes) =
                  Cardinality({j \in DOMAIN devices : devices[j].mac # ""})
           /\ \A j \in DOMAIN devices :
                  devices[j].mac # "" =>
                      \E i \in DOMAIN changes : changes[i].device = devices[j]
    /\ (Done /\ cycle = 2 /\ ThisScan = PrevScan) => changes = <<>>

InFlight == {i \in DOMAIN probe : probe[i] = "inflight"}

\* C7: at every moment of a ping_sweep at most max_concurrent probes have
\* started their ping and not yet finished or timed out.
C7_ConcurrencyBound == Cardinality(InFlight) <= max_concurrent

C7_Witness ==
    /\ Len(targets) > max_concurrent
    /\ Cardinality(InFlight) = max_concurrent
    /\ \E i \in DOMAIN probe : probe[i] = "pending"
    /\ \E i \in DOMAIN probe : probe[i] \in Outcomes

\* C8: ping_sweep returns only when every probe of the batch has completed,
\* and while the batch is open the cycle has read or written no store row,
\* emitted no Change and invoked no subscriber.
C8_BatchBarrier ==
    /\ pc # "sweep" => openProbes = 0
    /\ pc \in {"gathered", "resolve", "detect", "gone", "returned"} =>
           \A i \in DOMAIN probe : probe[i] \in Outcomes
    /\ (\/ idx > 0
        \/ db_devices # dbAtStart
        \/ changes # <<>>
        \/ notified # <<>>
        \/ Len(device_history) # histAtStart) =>
           /\ pc \notin {"sweep", "gathered"}
           /\ openProbes = 0

C8_Witness ==
    /\ pc = "detect"
    /\ cycle = 2
    /\ changes # <<>>
    /\ notified # <<>>
    /\ \E j \in DOMAIN devices : devices[j].discovery_method = "ping"

\* C9: a probe that times out or hits a process or I/O error returns None
\* and raises nothing, and the Devices ping_sweep returns are those of
\* exactly the targets whose own ping succeeded, in target order.
C9_FailureIsolation ==
    /\ \A i \in DOMAIN probe :
           probe[i] \in Outcomes =>
               /\ ping_host(targets[i], probe[i]).kind \in {"device", "none"}
               /\ probe[i] # "up" => ping_host(targets[i], probe[i]).kind = "none"
    /\ pc = "gathered" =>
           LET up == SelectSeq(SeqRange(1, Len(targets)),
                               LAMBDA i : probe[i] = "up")
           IN  /\ Len(ping_results) = Len(up)
               /\ \A k \in DOMAIN ping_results :
                      /\ ping_results[k].ip = targets[up[k]]
                      /\ ping_results[k].discovery_method = "ping"

C9_Witness ==
    /\ pc = "gathered"
    /\ \E i, j, k \in DOMAIN probe :
           /\ probe[i] = "timeout"
           /\ probe[j] = "oserror"
           /\ probe[k] = "up"
    /\ Len(ping_results) = 1

\* C10: the callback invocations of a cycle are, for each Change of the
\* returned list in order, one call of every registered subscriber in
\* registration order, whether or not a subscriber raised.
C10_Delivery ==
    LET n == Len(callbacks)
    IN  /\ Len(notified) = Len(changes) * n
        /\ \A k \in DOMAIN notified :
               /\ notified[k].change = changes[((k - 1) \div n) + 1]
               /\ notified[k].index = ((k - 1) % n) + 1
               /\ notified[k].callback = callbacks[notified[k].index]

C10_Witness ==
    /\ Done
    /\ callbacks = <<"bad", "good">>
    /\ Len(changes) >= 2
    /\ \E k \in DOMAIN notified :
           notified[k].callback = "good" /\ notified[k].change = changes[2]
    /\ \E k \in DOMAIN notified : notified[k].raised

\* C11: once stop() has been called on a running monitor_loop, no further
\* scan_network call starts (the sleep is cut short and the loop ends); the
\* cycle counter is what a started scan_network increments.
C11_CooperativeStop == [][stopCalled => cycle' = cycle]_vars

\* C12: monitor_loop sets running, and whenever it has returned (the loop
\* ended by stop() or by the cancellation of its task) running is false.
C12_Lifecycle ==
    /\ lpc \in {"first", "sleeping", "woken"} /\ ~stopCalled => running
    /\ lpc = "returned" => ~running

\* C13: a log_event or log_scan failure does not leave scan_network as an
\* exception: the cycle goes on to the remaining Devices, replaces the live
\* set and returns its changes (pc "raised" is the exception leaving the call).
C13_WriteFailureContained == pc # "raised"

\* C14: a cycle that raises never ends monitor_loop, the first cycle
\* included: the loop is not left by the exception.
C14_KeepsRunning == lpc # "crashed"

\* C15: the devices table holds exactly one record per case-normalized MAC
\* ever upserted, get_device finds it under every casing of the MAC, and
\* upsert_device returned true exactly when the MAC had no record before.
C15_MacUnique ==
    /\ \A k \in DOMAIN db_devices : Lower(k) = k /\ db_devices[k].mac = k
    /\ DOMAIN db_devices = DOMAIN supplied
    /\ \A m \in StoreMacs :
           get_device(db_devices, m) =
               IF Lower(m) \in DOMAIN supplied THEN <<db_devices[Lower(m)]>>
               ELSE <<>>
    /\ lastUpsert # <<>> =>
           (lastUpsert[1].is_new <=>
                Lower(lastUpsert[1].device.mac) \notin lastUpsert[1].before)

\* an upsert under "AA" found the record that was created under "aa"
C15_Witness ==
    /\ lastUpsert # <<>>
    /\ lastUpsert[1].device.mac = "AA"
    /\ ~lastUpsert[1].is_new
    /\ "bb" \in DOMAIN db_devices
    /\ get_device(db_devices, "AA") = <<db_devices["aa"]>>

\* C16: each step of the store keeps every record and its first_seen, never
\* lowers its last_seen, sets first_seen of a new record to the time of the
\* call, and leaves first_seen <= last_seen.
C16_Timestamps ==
    [][/\ DOMAIN db_devices \subseteq DOMAIN db_devices'
       /\ \A m \in DOMAIN db_devices' :
              /\ db_devices'[m].first_seen <= db_devices'[m].last_seen
              /\ IF m \in DOMAIN db_devices
                 THEN /\ db_devices'[m].first_seen = db_devices[m].first_seen
                      /\ db_devices'[m].last_seen >= db_devices[m].last_seen
                 ELSE db_devices'[m].first_seen = cycle']_vars

\* a record that was created, later updated at a later time, then marked
C16_Witness ==
    \E m \in DOMAIN db_devices :
        /\ db_devices[m].first_seen < db_devices[m].last_seen
        /\ db_devices[m].is_known = 1

Merged == pc \in {"resolve", "detect", "gone", "returned"}

PingPerTarget ==
    pc = "gathered" =>
        /\ Len(ping_results) <= Len(targets)
        /\ \A i, j \in DOMAIN ping_results :
               ping_results[i].ip = ping_results[j].ip => i = j
        /\ \A i \in DOMAIN ping_results : ping_results[i].ip \in Range(targets)

C18_DeviceCount ==
    /\ Merged => Len(devices) <= Len(targets)
    /\ PingPerTarget

\* C18 amended: the Device set of a cycle holds the ARP Devices and at most
\* one Device for every enumerated target that has no ARP entry; its size is
\* what log_scan records; ping_sweep returns at most one Device per target.
ArpIndex == {i \in DOMAIN devices : devices[i].discovery_method = "arp"}

C18_DeviceCountAmended ==
    /\ Merged =>
           Len(devices) <= Cardinality(ArpIndex) +
               Cardinality(Range(targets) \ {devices[i].ip : i \in ArpIndex})
    /\ Done => scan_history[Len(scan_history)].device_count = Len(devices)
    /\ PingPerTarget

\* a finished cycle against the single host 2 that found it by ping and
\* another host by ARP
C18_Witness ==
    /\ Done
    /\ Len(targets) = 1
    /\ Len(devices) = 2
    /\ \E i \in DOMAIN devices : devices[i].discovery_method = "ping"

\* the block of a valid spec: its size, network and broadcast address
Returned(fn) == call # <<>> /\ call[1].done /\ call[1].in.fn = fn

ValidCidr(c) == c.prefix <= AddrBits

BlockSize(c) == Pow2(AddrBits - c.prefix)

NetworkAddr(c) ==
    CHOOSE b \in 0..(Pow2(AddrBits) - 1) :
        b % BlockSize(c) = 0 /\ b <= c.addr /\ c.addr < b + BlockSize(c)

BroadcastAddr(c) == NetworkAddr(c) + BlockSize(c) - 1

Ascending(out) == \A i, j \in DOMAIN out : i < j => out[i] < out[j]

InBlock(c, out) ==
    /\ Range(out) \subseteq NetworkAddr(c)..BroadcastAddr(c)
    /\ (NetworkAddr(c) + 1)..(BroadcastAddr(c) - 1) \subseteq Range(out)

ValidRange(a, b) == a.family # 0 /\ a.family = b.family

C20_InvalidSpec ==
    /\ Returned("expand_cidr") /\ ~ValidCidr(call[1].in.cidr) =>
           \A c \in CidrSpecs, h \in BOOLEAN :
               ValidCidr(c) => call[1].out # expand_cidr(c, h)
    /\ Returned("expand_range") /\ ~ValidRange(call[1].in.start, call[1].in.end) =>
           \A a, b \in RangeAddrs :
               ValidRange(a, b) => call[1].out # expand_range(a, b)
    /\ Returned("expand_range") /\ call[1].in.start.family = 4
           /\ call[1].in.end.family = 4 =>
           /\ \A i \in DOMAIN call[1].out :
                  call[1].out[i] = AddressOf(call[1].in.start.value + i - 1)
           /\ Len(call[1].out) =
                  IF call[1].in.end.value >= call[1].in.start.value
                  THEN call[1].in.end.value - call[1].in.start.value + 1 ELSE 0

\* C21: the iteration over a Device without a MAC changes neither the store
\* nor the Changes, the notifications, the live set or the Device sequence;
\* no record, no Change and no live-set entry ever has an empty MAC.
C21_MacLessExcluded ==
    [][/\ (pc = "detect" /\ idx <= Len(devices) /\ idx' = idx + 1
              /\ devices[idx].mac = "") =>
           UNCHANGED <<db_devices, device_history, scan_history, changes,
                       notified, current_macs, current_devices, devices>>
       /\ "" \notin DOMAIN db_devices'
       /\ "" \notin current_macs' \cup last_scan_devices'
       /\ "" \notin DOMAIN current_devices'
       /\ \A i \in DOMAIN changes' : changes'[i].device.mac # ""
       /\ \A i \in DOMAIN device_history' : device_history'[i].mac # ""]_vars

\* a finished cycle whose Device sequence holds a ping-only Device, counted
\* in device_count and absent from the live set
C21_Witness ==
    /\ Done
    /\ \E i \in DOMAIN devices : devices[i].mac = ""
    /\ scan_history[Len(scan_history)].device_count = Len(devices)
    /\ Cardinality(last_scan_devices) < Len(devices)

\* C22: the merged Device set of a pass holds at most one Device per IP and
\* at most one Device per non-empty MAC, and an IP that ARP knows is not
\* added again from the ping results.
C22_NoDuplicateIdentity ==
    Merged =>
        \A i, j \in DOMAIN devices :
            /\ devices[i].ip = devices[j].ip => i = j
            /\ devices[i].mac # "" /\ devices[i].mac = devices[j].mac => i = j

\* C23: the Device sequence a cycle processes is in ascending order of IP.
C23_IpOrdered ==
    Merged => \A i, j \in DOMAIN devices : i < j => devices[i].ip <= devices[j].ip

\* C29: after a cycle the Devices get_current_devices returns (the values of
\* _current_devices) have exactly the MACs of the cycle's live set.
C29_CurrentDevices == Done => DOMAIN current_devices = last_scan_devices

\* C24: under every interleaving of the upserts of several monitors on one
\* store no call fails, and of the finished calls for one MAC that was not
\* stored before exactly one has returned true.
C24_AtomicUpsert ==
    /\ \A w \in DOMAIN writers : writers[w].pc # "failed"
    /\ \A m \in Macs :
           LET ended == {w \in DOMAIN writers :
                            /\ writers[w].pc \in {"returned", "failed"}
                            /\ Lower(writers[w].device.mac) = m}
           IN  /\ ended # {} =>
                      Cardinality({w \in ended : writers[w].is_new}) = 1
               /\ ended # {} => m \in DOMAIN db_devices

\* C25: the first cycle of a monitor constructed on a store with records
\* returns no GONE, returns RETURNED exactly for the MACs that were stored
\* and are sighted, NEW only for MACs that were not stored, and leaves the
\* first_seen of every stored record as it was.
FirstAfterRestart ==
    Done /\ bornAt > 0 /\ cycle = bornAt + 1 /\ DOMAIN dbAtStart # {}

C25_Restart ==
    FirstAfterRestart =>
        /\ \A i \in DOMAIN changes : changes[i].change_type # "gone"
        /\ {Lower(changes[i].device.mac) :
               i \in {j \in DOMAIN changes : changes[j].change_type = "returned"}}
             = DOMAIN dbAtStart \cap LiveOf(ThisScan)
        /\ \A i \in DOMAIN changes :
               changes[i].change_type = "new" =>
                   Lower(changes[i].device.mac) \notin DOMAIN dbAtStart
        /\ \A m \in DOMAIN dbAtStart :
               db_devices[m].first_seen = dbAtStart[m].first_seen

\* C26: after a completed cycle the HistoryEvents it appended match the
\* Changes it returned one by one, in order, in MAC and type (changed is
\* logged as ip_changed), and its ScanSummary counts the NEW and the GONE
\* Changes.
CycleEvents == SubSeq(device_history, histAtStart + 1, Len(device_history))

HistoryType(change_type) ==
    CASE change_type = "new" -> "new"
      [] change_type = "returned" -> "returned"
      [] change_type = "changed" -> "ip_changed"
      [] change_type = "gone" -> "gone"
      [] OTHER -> "none"

CountOf(change_type) ==
    Cardinality({i \in DOMAIN changes : changes[i].change_type = change_type})

C26_ChangeAndEvent ==
    Done =>
        /\ Len(CycleEvents) = Len(changes)
        /\ \A i \in DOMAIN changes :
               /\ CycleEvents[i].mac = Lower(changes[i].device.mac)
               /\ CycleEvents[i].event_type = HistoryType(changes[i].change_type)
        /\ scan_history[Len(scan_history)].new_devices = CountOf("new")
        /\ scan_history[Len(scan_history)].gone_devices = CountOf("gone")

\* a cycle that returned a CHANGED and a GONE
C26_Witness ==
    /\ Done
    /\ CountOf("changed") >= 1
    /\ CountOf("gone") >= 1
    /\ Len(CycleEvents) >= 2

\* C27: no step of a cycle or of a store operation removes a device record,
\* re-creates one (its MAC and first_seen stay), or removes or rewrites a row
\* of device_history or scan_history: each table keeps its rows as a prefix.
C27_AppendOnly ==
    [][/\ DOMAIN db_devices \subseteq DOMAIN db_devices'
       /\ \A m \in DOMAIN db_devices :
              /\ db_devices'[m].mac = db_devices[m].mac
              /\ db_devices'[m].first_seen = db_devices[m].first_seen
       /\ Len(device_history') >= Len(device_history)
       /\ SubSeq(device_history', 1, Len(device_history)) = device_history
       /\ Len(scan_history') >= Len(scan_history)
       /\ SubSeq(scan_history', 1, Len(scan_history)) = scan_history]_vars

\* two cycles, two records, one of them marked, two events and two summaries
C27_Witness ==
    /\ Cardinality(DOMAIN db_devices) = 2
    /\ \E m \in DOMAIN db_devices :
           db_devices[m].is_known = 1 \/ db_devices[m].is_trusted = 1
    /\ Len(device_history) >= 3
    /\ Len(scan_history) = 2

\* C30: a step of the store changes at most one record.  A record that
\* appears was created by an upsert of its MAC and has is_known = 0 and
\* is_trusted = 0; a record that changes either keeps everything but ip,
\* hostname, vendor and last_seen (an upsert), or everything but one of
\* is_known, is_trusted and custom_name (a mark).
UpsertFrame(a, b) ==
    b = [a EXCEPT !.ip = b.ip, !.hostname = b.hostname, !.vendor = b.vendor,
                  !.last_seen = b.last_seen]

MarkFrame(a, b) ==
    \/ b = [a EXCEPT !.is_known = b.is_known]
    \/ b = [a EXCEPT !.is_trusted = b.is_trusted]
    \/ b = [a EXCEPT !.custom_name = b.custom_name]

C30_Frame ==
    [][/\ Cardinality({m \in DOMAIN db_devices' :
                          m \notin DOMAIN db_devices
                              \/ db_devices'[m] # db_devices[m]}) <= 1
       /\ \A m \in DOMAIN db_devices' :
              IF m \notin DOMAIN db_devices
              THEN /\ db_devices'[m].is_known = 0
                   /\ db_devices'[m].is_trusted = 0
                   /\ m \in DOMAIN supplied' \ DOMAIN supplied
              ELSE IF supplied' # supplied \/ lastUpsert' # lastUpsert
                      \/ cycle' # cycle
              THEN UpsertFrame(db_devices[m], db_devices'[m])
              ELSE \/ UpsertFrame(db_devices[m], db_devices'[m])
                   \/ MarkFrame(db_devices[m], db_devices'[m])]_vars

\* three calls on one record: it is marked known and was seen again later
C30_Witness ==
    /\ storeOps = MaxStoreOps
    /\ Cardinality(DOMAIN db_devices) = 1
    /\ \E m \in DOMAIN db_devices :
           /\ db_devices[m].is_known = 1
           /\ db_devices[m].first_seen < db_devices[m].last_seen
           /\ db_devices[m].hostname = "h2"

\* C28: during stealth_scan at most 10 probes are in flight, the probes are
\* started in target order, a pause comes right before every probe that
\* follows a block of 10, and once stealth_scan has returned max_concurrent
\* is the configured bound again, which is what a following ping_sweep is
\* gated at.
StealthProbes == SelectSeq(stealthLog, LAMBDA e : e.kind = "probe")

C28_StealthPolicy ==
    /\ pc \in StealthStates =>
           /\ Cardinality(InFlight) <= 10
           /\ \A k \in DOMAIN StealthProbes : StealthProbes[k].i = k - 1
           /\ \A k \in DOMAIN stealthLog :
                  (/\ stealthLog[k].kind = "probe"
                   /\ stealthLog[k].i > 0
                   /\ stealthLog[k].i % 10 = 0)
                      => /\ k > 1
                         /\ stealthLog[k - 1].kind = "pause"
    /\ (stealthLog # <<>> /\ pc \in {"stealth_done", "sweep", "gathered"}) =>
           max_concurrent = DefaultMaxConcurrent
    /\ (stealthLog # <<>> /\ pc = "sweep") =>
           semaphore + Cardinality(InFlight) = DefaultMaxConcurrent

\* a stealth scan of 11 targets has returned, having paused once, and the
\* ping_sweep after it has a probe in flight
C28_Witness ==
    /\ pc = "sweep"
    /\ Len(StealthProbes) = 11
    /\ \E k \in DOMAIN stealthLog : stealthLog[k].kind = "pause"
    /\ InFlight # {}

====
